---- MODULE Spec2Model ----
(***************************************************************************)
(* Protocol engine of the ZE29A-C2H5OH breath-alcohol sensor driver        *)
(* (Alcolimetro_v1/src/main.cpp): frame construction, check value,         *)
(* response framing over the serial link, and the mirrored sensor state.   *)
(* Bytes are integers 0..255.  A frame is a sequence of 9 bytes; B(f, i)   *)
(* is the byte the source calls f[i] (0-based).  Times are milliseconds.   *)
(***************************************************************************)
EXTENDS Integers, Sequences, FiniteSets, TLC

VARIABLES
    currentStatus,    \* byte currentStatus: the mirrored sensor state
    resultAvailable,  \* bool resultAvailable
    due,              \* whether millis() - lastStatusCheck >= 3000
    rx,               \* bytes waiting in SensorSerial's receive buffer
    pc,               \* where the program is: "loop", "esperar", "cambiar"
    espera,           \* millis() - t0 inside esperarEstado
    obs,              \* what the last handler step did on the link / console
    arg,              \* input of the function exercised by a unit specification
    ret               \* its result

vars == <<currentStatus, resultAvailable, due, rx, pc, espera, obs, arg, ret>>

----------------------------------------------------------------------------
(* Program constants *)

STATUS_IDLE == 49
STATUS_PREHEATING == 50
STATUS_WAITING_FOR_BLOW == 51
STATUS_BLOWING == 52
STATUS_BLOW_INTERRUPTED == 53
STATUS_CALCULATING == 54
STATUS_READ_RESULT == 55

ALARM_NONE == 0
ALARM_DRINKING == 1
ALARM_DRUNK == 2

START_BYTE == 255
ADDRESS == 1
CMD_ESTADO == 133
CMD_RESULTADO == 134
CMD_CAMBIAR == 135
CMD_LEER_TIEMPO == 136
CMD_CONFIG_TIEMPO == 137
CMD_UMBRAL == 144
ACK_OK == 1

FRAME_LEN == 9
READ_TIMEOUT_MS == 3000
READ_POLL_MS == 10
SETTLE_ENVIAR_MS == 500
SETTLE_INLINE_MS == 800
ESPERA_TIMEOUT_MS == 10000
ESPERA_POLL_MS == 500
PERIOD_MS == 3000
SETUP_DELAY1_MS == 5000
SETUP_DELAY2_MS == 1000
PROBAR_DELAY_MS == 100
RESET_DELAY_MS == 1000
TIEMPO_MIN == 1
TIEMPO_MAX == 10

Byte == 0..255
B(f, i) == f[i + 1]
Uninit == -1

----------------------------------------------------------------------------
(* int arithmetic of the target (32-bit two's complement) and the cast to  *)
(* byte.  The sums here are at most 7 * 255, so no int operation wraps:    *)
(* -x is exact, ~x is -x - 1, x & 0xFF and (byte)x are x modulo 256.       *)

Neg(x) == -x
BitNot(x) == -x - 1
And255(x) == x % 256
ToByte(x) == x % 256

\* x << 8 and a | b on non-negative ints that stay below 2^31
Shl8(x) == x * 256

RECURSIVE BitOr(_, _)
BitOr(a, b) ==
    IF a = 0 THEN b
    ELSE IF b = 0 THEN a
    ELSE (IF a % 2 = 1 \/ b % 2 = 1 THEN 1 ELSE 0) + 2 * BitOr(a \div 2, b \div 2)

RECURSIVE SumBytes(_, _, _)
SumBytes(data, from, to) ==
    IF from > to THEN 0 ELSE B(data, from) + SumBytes(data, from + 1, to)

\* calcularChecksum(data, len): (byte)((-sum) + 1) over data[0..len-1]
calcularChecksum(data, len) ==
    ToByte(Neg(SumBytes(data, 0, len - 1)) + 1)

\* cambiarEstado: cmd[8] = (byte)(~(sum & 0xFF) + 1), sum over cmd[1..7]
ChecksumMasked(cmd) ==
    ToByte(BitNot(And255(SumBytes(cmd, 1, 7))) + 1)

\* leerTiempoSoplado / configurarTiempoSoplado: cmd[8] = (byte)((~sum) + 1)
ChecksumNotNoPlusOne(cmd) ==
    ToByte(BitNot(SumBytes(cmd, 1, 7)))
ChecksumNot(cmd) ==
    ToByte(BitNot(SumBytes(cmd, 1, 7)) + 1)

----------------------------------------------------------------------------
(* The serial link to the sensor as the program sees it.                   *)
(*   rx       bytes SensorSerial.available() reports, oldest first         *)
(*   incoming bytes the sensor has emitted and that reach rx at time .at   *)
(*   now      millis()                                                     *)
(*   old      how many leading bytes of rx were already received when the  *)
(*            last command was written                                     *)
(*   ev       the calls made on the link, in program order                 *)
(* Time passes only in delay(); a byte reaches rx when its time has come.  *)

Link(rx0) == [rx |-> rx0, incoming |-> <<>>, now |-> 0, old |-> Len(rx0), ev |-> <<>>]

Min(a, b) == IF a < b THEN a ELSE b
Max(a, b) == IF a > b THEN a ELSE b

RECURSIVE Arrived(_, _)
Arrived(incoming, now) ==
    IF incoming = <<>> \/ Head(incoming).at > now THEN 0
    ELSE 1 + Arrived(Tail(incoming), now)

\* delay(ms)
Delay(L, ms) ==
    LET t == L.now + ms
        k == Arrived(L.incoming, t)
    IN [L EXCEPT !.now = t,
                 !.rx = @ \o [i \in 1..k |-> L.incoming[i].b],
                 !.incoming = SubSeq(@, k + 1, Len(@))]

\* SensorSerial.available()
Available(L) == Len(L.rx) > 0

\* SensorSerial.read()
ReadByte(L) == [L EXCEPT !.rx = Tail(@), !.old = Max(@ - 1, 0)]

\* while (SensorSerial.available()) SensorSerial.read();
DrainNothing(L) == [L EXCEPT !.ev = Append(@, [e |-> "drain", n |-> 0])]
Drain(L) ==
    [L EXCEPT !.rx = <<>>, !.old = 0,
              !.ev = Append(@, [e |-> "drain", n |-> Len(L.rx)])]

\* a sensor reply: bytes, the time after the command at which the first one
\* reaches the receive buffer, and the time between consecutive bytes
Timed(s, now) ==
    [i \in 1..Len(s.bytes) |-> [at |-> now + s.delay + (i - 1) * s.gap, b |-> s.bytes[i]]]

\* SensorSerial.write(cmd, 9): the sensor's reply s is on its way from here on
Write(L, cmd, s) ==
    [L EXCEPT !.incoming = @ \o Timed(s, L.now),
              !.old = Len(L.rx),
              !.ev = Append(@, [e |-> "write", f |-> cmd, pending |-> Len(L.rx)])]

\* SensorSerial.flush()
Flush(L) == [L EXCEPT !.ev = Append(@, [e |-> "flush"])]

\* enviarComando(cmd, len)
enviarComandoNoDrain(L, cmd, s) ==
    Delay(Flush(Write(DrainNothing(L), cmd, s)), SETTLE_ENVIAR_MS)
enviarComando(L, cmd, s) ==
    Delay(Flush(Write(Drain(L), cmd, s)), SETTLE_ENVIAR_MS)

----------------------------------------------------------------------------
(* leerRespuesta(buffer, expectedLen).  r is the state of one call:        *)
(* the link, the locals bytesRead, startByteFound and buffer, and what the *)
(* call did: reads (number of SensorSerial.read()), lastRead (millis() -   *)
(* startTime at the last one), oldRead (reads of bytes counted by L.old),  *)
(* skipped (bytes discarded before the start byte), written (the indices   *)
(* of buffer assigned to), maxBytesRead (the largest value of bytesRead).  *)

EmptyBuffer == [i \in 1..FRAME_LEN |-> Uninit]

ReadState(L) ==
    [L |-> L, startTime |-> L.now, bytesRead |-> 0, startByteFound |-> FALSE,
     buffer |-> EmptyBuffer, reads |-> 0, lastRead |-> -1, oldRead |-> 0,
     skipped |-> 0, written |-> {}, maxBytesRead |-> 0, ok |-> FALSE]

\* while (millis() - startTime < 3000)
TimeLeftInclusive(r) == r.L.now - r.startTime <= READ_TIMEOUT_MS
TimeLeft(r) == r.L.now - r.startTime < READ_TIMEOUT_MS

\* if (currentByte == 0xFF)
IsStartAny(currentByte) == TRUE
IsStart(currentByte) == currentByte = START_BYTE

\* buffer[0] = currentByte; bytesRead = 1; startByteFound = true;
StoreStartNoCount(r, currentByte) ==
    [r EXCEPT !.buffer[1] = currentByte, !.bytesRead = 0, !.startByteFound = TRUE,
              !.written = @ \cup {0}]
StoreStart(r, currentByte) ==
    [r EXCEPT !.buffer[1] = currentByte, !.bytesRead = 1, !.startByteFound = TRUE,
              !.written = @ \cup {0}, !.maxBytesRead = Max(@, 1)]

\* buffer[bytesRead++] = currentByte;
StoreByteReinicia(r, currentByte) ==
    IF currentByte = START_BYTE
    THEN StoreStart(r, currentByte)
    ELSE [r EXCEPT !.buffer[r.bytesRead + 1] = currentByte,
                   !.bytesRead = @ + 1,
                   !.written = @ \cup {r.bytesRead},
                   !.maxBytesRead = Max(@, r.bytesRead + 1)]
StoreByte(r, currentByte) ==
    [r EXCEPT !.buffer = [i \in DOMAIN @ \cup {r.bytesRead + 1} |->
                             IF i = r.bytesRead + 1 THEN currentByte ELSE @[i]],
              !.bytesRead = @ + 1,
              !.written = @ \cup {r.bytesRead},
              !.maxBytesRead = Max(@, r.bytesRead + 1)]

\* The passes of the while loop that find available() false, taken together:
\* each one is a delay(READ_POLL_MS), and they go on until a byte has arrived
\* or the loop condition fails.  CeilDiv(a, b) is the least n with n * b >= a.
CeilDiv(a, b) == (a + b - 1) \div b

PollsUntilData(r) ==
    IF r.L.incoming = <<>> THEN CeilDiv(READ_TIMEOUT_MS, READ_POLL_MS) + 1
    ELSE Max(1, CeilDiv(Head(r.L.incoming).at - r.L.now, READ_POLL_MS))

PollsUntilTimeout(r) ==
    Max(1, CeilDiv(r.startTime + READ_TIMEOUT_MS - r.L.now, READ_POLL_MS))

IdlePolls(r) ==
    [r EXCEPT !.L = Delay(@, READ_POLL_MS * Min(PollsUntilData(r), PollsUntilTimeout(r)))]

RECURSIVE leerLoop(_, _)
leerLoop(r, expectedLen) ==
    IF ~TimeLeft(r) THEN [r EXCEPT !.ok = FALSE]
    ELSE IF Available(r.L) THEN
        LET currentByte == Head(r.L.rx)
            r1 == [r EXCEPT !.L = ReadByte(@),
                            !.reads = @ + 1,
                            !.lastRead = r.L.now - r.startTime,
                            !.oldRead = @ + (IF r.L.old > 0 THEN 1 ELSE 0)]
        IN IF ~r.startByteFound THEN
               IF IsStart(currentByte)
               THEN leerLoop(StoreStart(r1, currentByte), expectedLen)
               ELSE leerLoop([r1 EXCEPT !.skipped = @ + 1], expectedLen)
           ELSE LET r2 == StoreByte(r1, currentByte)
                IN IF r2.bytesRead >= expectedLen
                   THEN [r2 EXCEPT !.ok = TRUE]
                   ELSE leerLoop([r2 EXCEPT !.L = Delay(@, READ_POLL_MS)], expectedLen)
    ELSE leerLoop(IdlePolls(r), expectedLen)

\* the call as its caller sees it: the link afterwards (with the call logged)
\* and the record of the call without the link
Leido(r) == [x \in DOMAIN r \ {"L"} |-> r[x]] @@ [dur |-> r.L.now - r.startTime]

leerRespuesta(L, expectedLen) ==
    LET r == leerLoop(ReadState(L), expectedLen)
    IN [L |-> [r.L EXCEPT !.ev = Append(@, [e |-> "leer", ok |-> r.ok, n |-> r.bytesRead])],
        r |-> Leido(r)]

NoRead == [ok |-> FALSE, bytesRead |-> 0, buffer |-> EmptyBuffer, reads |-> 0,
           lastRead |-> -1, oldRead |-> 0, skipped |-> 0, startByteFound |-> FALSE,
           written |-> {}, maxBytesRead |-> 0, startTime |-> 0, dur |-> 0]

----------------------------------------------------------------------------
(* Command frames *)

Cmd9(code, data0) == <<START_BYTE, ADDRESS, code, data0, 0, 0, 0, 0, 0>>
WithCheck(cmd, c) == [cmd EXCEPT ![FRAME_LEN] = c]

cmdEstado == <<255, 1, 133, 0, 0, 0, 0, 0, 122>>
cmdLeerResultado == <<255, 1, 134, 0, 0, 0, 0, 0, 121>>
cmdUmbral == <<255, 1, 144, 0, 0, 0, 0, 0, 111>>
cmdTest == <<255, 1, 133, 0, 0, 0, 0, 0, 122>>

\* if (response[0] == 0xFF && response[1] == code)
HeaderOkAny(response, code) == B(response, 0) = START_BYTE
HeaderOk(response, code) == B(response, 0) = START_BYTE /\ B(response, 1) = code

----------------------------------------------------------------------------
(* The operations.  Each takes the link L at entry, the sensor's reply s   *)
(* to the command it writes, and the globals it reads; it returns the link *)
(* at return, the globals, the record r of its leerRespuesta call, and     *)
(* which message it printed (out) with the values printed (val).           *)

Res(L, cs, ra, r, out, val) ==
    [L |-> L, cs |-> cs, ra |-> ra, r |-> r, out |-> out, val |-> val]

\* verificarEstado()
verificarEstadoSinCabecera(L, cs, ra, s) ==
    LET x == leerRespuesta(enviarComando(L, cmdEstado, s), FRAME_LEN)
        response == x.r.buffer
    IN IF x.r.ok
       THEN Res(x.L, B(response, 2),
                IF B(response, 2) = STATUS_READ_RESULT THEN TRUE ELSE ra,
                x.r, "estado", <<B(response, 2)>>)
       ELSE Res(x.L, cs, ra, x.r, "error_estado", <<>>)
verificarEstado(L, cs, ra, s) ==
    LET x == leerRespuesta(enviarComando(L, cmdEstado, s), FRAME_LEN)
        response == x.r.buffer
    IN IF x.r.ok THEN
           IF HeaderOk(response, CMD_ESTADO)
           THEN Res(x.L, B(response, 2),
                    IF B(response, 2) = STATUS_READ_RESULT THEN TRUE ELSE ra,
                    x.r, "estado", <<B(response, 2)>>)
           ELSE Res(x.L, cs, ra, x.r, "nada", <<>>)
       ELSE Res(x.L, cs, ra, x.r, "error_estado", <<>>)

\* leerResultado(): alcoholContent = (response[2] << 8) | response[3]
alcoholContentLowFirst(response) == BitOr(Shl8(B(response, 3)), B(response, 2))
alcoholContent(response) == BitOr(Shl8(B(response, 2)), B(response, 3))

\* leerResultado(): switch (alarmStatus), the line printed
alarma(alarmStatus) ==
    CASE alarmStatus = ALARM_NONE -> <<"sin_alcohol">>
      [] alarmStatus = ALARM_DRINKING -> <<"bebido">>
      [] alarmStatus = ALARM_DRUNK -> <<"ebrio">>
      [] OTHER -> <<"desconocido", alarmStatus>>

leerResultado(L, cs, ra, s) ==
    LET x == leerRespuesta(enviarComando(L, cmdLeerResultado, s), FRAME_LEN)
        response == x.r.buffer
    IN IF x.r.ok THEN
           IF HeaderOk(response, CMD_RESULTADO)
           THEN Res(x.L, cs, ra, x.r, "resultado",
                    <<alcoholContent(response), alarma(B(response, 7))>>)
           ELSE Res(x.L, cs, ra, x.r, "resultado_invalido", <<>>)
       ELSE Res(x.L, cs, ra, x.r, "error_resultado", <<>>)

\* consultarUmbrales()
consultarUmbrales(L, cs, ra, s) ==
    LET x == leerRespuesta(enviarComando(L, cmdUmbral, s), FRAME_LEN)
        response == x.r.buffer
    IN IF x.r.ok /\ HeaderOk(response, CMD_UMBRAL)
       THEN Res(x.L, cs, ra, x.r, "umbrales", <<B(response, 2), B(response, 3)>>)
       ELSE Res(x.L, cs, ra, x.r, "nada", <<>>)

\* the exchange written out in cambiarEstado, leerTiempoSoplado and
\* configurarTiempoSoplado: drain, write, flush, delay(800), leerRespuesta
ExchangeInlineReintenta(L, cmd, s) ==
    LET x == leerRespuesta(Delay(Flush(Write(Drain(L), cmd, s)), SETTLE_INLINE_MS), FRAME_LEN)
    IN IF x.r.ok THEN x
       ELSE leerRespuesta(Delay(Flush(Write(Drain(x.L), cmd, s)), SETTLE_INLINE_MS),
                          FRAME_LEN)
ExchangeInline(L, cmd, s) ==
    leerRespuesta(Delay(Flush(Write(Drain(L), cmd, s)), SETTLE_INLINE_MS), FRAME_LEN)

\* cambiarEstado(nuevoEstado)
cmdCambiar(nuevoEstado) ==
    LET cmd == Cmd9(CMD_CAMBIAR, nuevoEstado) IN WithCheck(cmd, ChecksumMasked(cmd))

cambiarEstado(L, cs, ra, nuevoEstado, s) ==
    LET x == ExchangeInline(L, cmdCambiar(nuevoEstado), s)
        response == x.r.buffer
    IN IF x.r.ok THEN
           IF HeaderOk(response, CMD_CAMBIAR) THEN
               IF B(response, 2) = ACK_OK
               THEN Res(x.L, cs, ra, x.r, "cambio_exitoso", <<nuevoEstado>>)
               ELSE Res(x.L, cs, ra, x.r, "cambio_rechazado", <<B(response, 2)>>)
           ELSE Res(x.L, cs, ra, x.r, "cambio_incorrecta", <<>>)
       ELSE Res(x.L, cs, ra, x.r, "cambio_sin_respuesta", <<>>)

\* leerTiempoSoplado()
cmdLeerTiempo ==
    LET cmd == Cmd9(CMD_LEER_TIEMPO, 0) IN WithCheck(cmd, ChecksumNot(cmd))

leerTiempoSoplado(L, cs, ra, s) ==
    LET x == ExchangeInline(L, cmdLeerTiempo, s)
        response == x.r.buffer
    IN IF x.r.ok THEN
           IF HeaderOk(response, CMD_LEER_TIEMPO)
           THEN Res(x.L, cs, ra, x.r, "tiempo", <<B(response, 2)>>)
           ELSE Res(x.L, cs, ra, x.r, "tiempo_incorrecta", <<>>)
       ELSE Res(x.L, cs, ra, x.r, "tiempo_sin_respuesta", <<>>)

\* configurarTiempoSoplado(nuevoTiempo)
cmdConfigTiempoSinCheck(nuevoTiempo) == Cmd9(CMD_CONFIG_TIEMPO, nuevoTiempo)
cmdConfigTiempo(nuevoTiempo) ==
    LET cmd == Cmd9(CMD_CONFIG_TIEMPO, nuevoTiempo) IN WithCheck(cmd, ChecksumNot(cmd))

FueraDeRango(nuevoTiempo) == nuevoTiempo < TIEMPO_MIN \/ nuevoTiempo > TIEMPO_MAX

configurarTiempoSoplado(L, cs, ra, nuevoTiempo, s) ==
    IF FueraDeRango(nuevoTiempo)
    THEN Res(L, cs, ra, NoRead, "config_fuera_de_rango", <<>>)
    ELSE LET x == ExchangeInline(L, cmdConfigTiempo(nuevoTiempo), s)
             response == x.r.buffer
         IN IF x.r.ok THEN
                IF HeaderOk(response, CMD_CONFIG_TIEMPO) THEN
                    IF B(response, 2) = ACK_OK
                    THEN Res(x.L, cs, ra, x.r, "config_exitosa", <<>>)
                    ELSE Res(x.L, cs, ra, x.r, "config_rechazada", <<>>)
                ELSE Res(x.L, cs, ra, x.r, "config_incorrecta", <<>>)
            ELSE Res(x.L, cs, ra, x.r, "config_sin_respuesta", <<>>)

\* probarComunicacion(): enviarComando, delay(100), print available()
probarComunicacion(L, cs, ra, s) ==
    LET L1 == Delay(enviarComando(L, cmdTest, s), PROBAR_DELAY_MS)
    IN Res(L1, cs, ra, NoRead, "disponibles", <<Len(L1.rx)>>)

\* resetComunicacion(): end, delay(1000), begin, delay(1000), drain
resetComunicacion(L, cs, ra) ==
    Res(Drain(Delay(Delay(L, RESET_DELAY_MS), RESET_DELAY_MS)), cs, ra, NoRead, "reset", <<>>)

\* iniciarPrueba(), up to the test of the state: the query written out there
\* sets currentStatus and nothing else
iniciarPruebaConsultaMarca(L, cs, ra, s) ==
    LET x == leerRespuesta(enviarComando(L, cmdEstado, s), FRAME_LEN)
        response == x.r.buffer
    IN IF x.r.ok /\ HeaderOk(response, CMD_ESTADO)
       THEN Res(x.L, B(response, 2),
                IF B(response, 2) = STATUS_READ_RESULT THEN TRUE ELSE ra,
                x.r, "estado_antes", <<B(response, 2)>>)
       ELSE Res(x.L, cs, ra, x.r, "nada", <<>>)
iniciarPruebaConsulta(L, cs, ra, s) ==
    LET x == leerRespuesta(enviarComando(L, cmdEstado, s), FRAME_LEN)
        response == x.r.buffer
    IN IF x.r.ok /\ HeaderOk(response, CMD_ESTADO)
       THEN Res(x.L, B(response, 2), ra, x.r, "estado_antes", <<B(response, 2)>>)
       ELSE Res(x.L, cs, ra, x.r, "nada", <<>>)

\* if (currentStatus == STATUS_IDLE || currentStatus == STATUS_READ_RESULT)
PuedeIniciarSiempre(cs) == TRUE
PuedeIniciarSoloIdle(cs) == cs = STATUS_IDLE
PuedeIniciar(cs) == cs = STATUS_IDLE \/ cs = STATUS_READ_RESULT

\* loop(), case 'r': if (currentStatus == STATUS_READ_RESULT)
HayResultadoSiempre(cs) == TRUE
HayResultado(cs) == cs = STATUS_READ_RESULT

\* loop(): if (currentStatus == STATUS_READ_RESULT && resultAvailable)
LecturaAutomatica(cs, ra) == cs = STATUS_READ_RESULT /\ ra

\* esperarEstado: while (millis() - t0 < timeoutMs)
EsperaSigue(transcurrido, timeoutMs) == transcurrido < timeoutMs

\* esperarEstado: the time one pass of the loop takes, verificarEstado() and,
\* unless it returns, delay(500)
PasoSinTiempo(x, retorna) == 0
Paso(x, retorna) == IF retorna THEN x.L.now ELSE Delay(x.L, ESPERA_POLL_MS).now

----------------------------------------------------------------------------
(* The sensor: what it may put on the line after a command with code c.    *)
(* A well-formed reply is 0xFF, the command code, data, and the check      *)
(* value of bytes 1..7; the others are what a noisy or slow line delivers. *)

MaxGarbage == 2       \* bytes of line noise ahead of a reply
TruncLen == 5         \* bytes of a reply that stops short
ReplyDelayMs == 100   \* command written -> first byte of the reply received
ByteGapMs == 1        \* between two bytes of a reply (9600 baud)
LateDelayMs == 3900   \* a reply that comes after the reader has given up
NoiseByte == 7

SensorCheck(f) == (256 - (SumBytes(f, 1, 7) % 256)) % 256

SensorFrame(b0, echo, d, off) ==
    LET f == <<b0, echo, d[1], d[2], 0, 0, 0, d[3], 0>>
    IN [f EXCEPT ![FRAME_LEN] = (SensorCheck(f) + off) % 256]

Reply(bytes, delay) == [bytes |-> bytes, delay |-> delay, gap |-> ByteGapMs]
NoReply == Reply(<<>>, 0)

\* data bytes <<response[2], response[3], response[7]>> of the replies tried
Datos(c) ==
    CASE c = CMD_ESTADO -> {<<STATUS_IDLE, 0, 0>>, <<STATUS_PREHEATING, 0, 0>>,
                            <<STATUS_BLOWING, 0, 0>>, <<STATUS_READ_RESULT, 0, 0>>,
                            <<153, 0, 0>>}
      [] c = CMD_RESULTADO -> {<<0, 50, ALARM_DRINKING>>, <<1, 44, ALARM_DRUNK>>,
                               <<0, 10, ALARM_NONE>>, <<0, 50, 7>>,
                               <<255, 255, ALARM_DRUNK>>}
      [] c = CMD_CAMBIAR -> {<<ACK_OK, 0, 0>>, <<0, 0, 0>>}
      [] c = CMD_LEER_TIEMPO -> {<<5, 0, 0>>}
      [] c = CMD_CONFIG_TIEMPO -> {<<ACK_OK, 0, 0>>, <<0, 0, 0>>}
      [] OTHER -> {<<20, 80, 0>>}

\* data bytes of the malformed replies tried
DatosMal(c) ==
    CASE c = CMD_ESTADO -> {<<STATUS_BLOWING, 0, 0>>, <<STATUS_READ_RESULT, 0, 0>>}
      [] c = CMD_RESULTADO -> {<<0, 50, ALARM_DRINKING>>}
      [] c = CMD_CAMBIAR -> {<<ACK_OK, 0, 0>>}
      [] c = CMD_LEER_TIEMPO -> {<<5, 0, 0>>}
      [] c = CMD_CONFIG_TIEMPO -> {<<ACK_OK, 0, 0>>}
      [] OTHER -> {<<20, 80, 0>>}

DatosTarde(c) ==
    CASE c = CMD_ESTADO -> {<<STATUS_READ_RESULT, 0, 0>>}
      [] c = CMD_RESULTADO -> {<<0, 50, ALARM_DRINKING>>}
      [] c = CMD_CAMBIAR -> {<<ACK_OK, 0, 0>>}
      [] c = CMD_LEER_TIEMPO -> {<<5, 0, 0>>}
      [] c = CMD_CONFIG_TIEMPO -> {<<ACK_OK, 0, 0>>}
      [] OTHER -> {<<20, 80, 0>>}

OtroCodigo(c) == IF c = CMD_ESTADO THEN CMD_RESULTADO ELSE CMD_ESTADO

Noise(n) == [i \in 1..n |-> NoiseByte]

Replies(c) ==
    {NoReply}
    \cup {Reply(SensorFrame(START_BYTE, c, d, 0), ReplyDelayMs) : d \in Datos(c)}
    \cup {Reply(SensorFrame(START_BYTE, c, d, 1), ReplyDelayMs) : d \in DatosMal(c)}
    \cup {Reply(SensorFrame(START_BYTE, OtroCodigo(c), d, 0), ReplyDelayMs) : d \in DatosMal(c)}
    \cup {Reply(SensorFrame(0, c, d, 0), ReplyDelayMs) : d \in DatosMal(c)}
    \cup {Reply(SubSeq(SensorFrame(START_BYTE, c, d, 0), 1, TruncLen), ReplyDelayMs) :
            d \in DatosMal(c)}
    \cup {Reply(Noise(n) \o SensorFrame(START_BYTE, c, d, 0), ReplyDelayMs) :
            n \in 1..MaxGarbage, d \in DatosMal(c)}
    \cup {Reply(SensorFrame(START_BYTE, c, d, 0), LateDelayMs) : d \in DatosTarde(c)}

\* the replies tried where the program does not read the reply
RepliesProbar == {NoReply, Reply(SensorFrame(START_BYTE, CMD_ESTADO, <<STATUS_IDLE, 0, 0>>, 0), ReplyDelayMs)}

\* what is typed after the console command 'c'
Typed == {0, 1, 7, 10, 11, 257}

----------------------------------------------------------------------------
(* The program *)

\* millis() - lastStatusCheck >= PERIOD_MS after ms more milliseconds: it
\* stays true, it is true after PERIOD_MS at the latest, and before that it
\* depends on how long ago lastStatusCheck was set
Elapsed(d, ms) == IF d \/ ms >= PERIOD_MS THEN {TRUE} ELSE {FALSE, TRUE}

\* obs: the step's operation (op), the calls it made on the link (ev), its
\* leerRespuesta call (r), the message printed (out) with its values (val),
\* what the sensor sent (s), currentStatus at entry (prev), the argument
\* (in), and for iniciarPrueba the branch taken on the state (gate)
NoObs == [op |-> "none", ev |-> <<>>, r |-> NoRead, out |-> "", val |-> <<>>,
          s |-> NoReply, prev |-> STATUS_IDLE, in |-> 0, gate |-> ""]

Obs(op, x, s, in, gate) ==
    [op |-> op, ev |-> x.L.ev, r |-> x.r, out |-> x.out, val |-> x.val,
     s |-> s, prev |-> currentStatus, in |-> in, gate |-> gate]

\* the globals and the receive buffer after a step that returned x; bytes
\* still on their way have arrived by the time the next step runs
Apply(op, x, s, in, gate) ==
    /\ currentStatus' = x.cs
    /\ resultAvailable' = x.ra
    /\ rx' = x.L.rx \o [i \in 1..Len(x.L.incoming) |-> x.L.incoming[i].b]
    /\ due' \in Elapsed(due, x.L.now)
    /\ obs' = Obs(op, x, s, in, gate)

Nothing(out) == Res(Link(rx), currentStatus, resultAvailable, NoRead, out, <<>>)

Init ==
    /\ currentStatus = STATUS_IDLE
    /\ resultAvailable = FALSE
    /\ due = FALSE
    /\ rx \in {<<>>, Noise(1)}
    /\ pc = "setup"
    /\ espera = 0
    /\ obs = NoObs
    /\ arg = 0
    /\ ret = 0

\* setup(): delay(5000), delay(1000), verificarEstado()
Setup ==
    /\ pc = "setup"
    /\ \E s \in Replies(CMD_ESTADO) :
          Apply("verificarEstado",
                verificarEstado(Delay(Delay(Link(rx), SETUP_DELAY1_MS), SETUP_DELAY2_MS),
                                currentStatus, resultAvailable, s), s, 0, "")
    /\ pc' = "loop"
    /\ UNCHANGED <<espera, arg, ret>>

\* loop(), case 's'
CmdS ==
    /\ pc = "loop"
    /\ \E s \in Replies(CMD_ESTADO) :
          Apply("verificarEstado",
                verificarEstado(Link(rx), currentStatus, resultAvailable, s), s, 0, "")
    /\ pc' = "periodic"
    /\ UNCHANGED <<espera, arg, ret>>

\* loop(), case 'r'
CmdR ==
    /\ pc = "loop"
    /\ IF HayResultado(currentStatus)
       THEN \E s \in Replies(CMD_RESULTADO) :
               Apply("leerResultado",
                     leerResultado(Link(rx), currentStatus, resultAvailable, s), s, 0, "")
       ELSE Apply("r", Nothing("no_hay_resultado"), NoReply, 0, "")
    /\ pc' = "periodic"
    /\ UNCHANGED <<espera, arg, ret>>

\* loop(), case 'q'
CmdQ ==
    /\ pc = "loop"
    /\ \E s \in Replies(CMD_UMBRAL) :
          Apply("consultarUmbrales",
                consultarUmbrales(Link(rx), currentStatus, resultAvailable, s), s, 0, "")
    /\ pc' = "periodic"
    /\ UNCHANGED <<espera, arg, ret>>

\* loop(), case 't'
CmdT ==
    /\ pc = "loop"
    /\ \E s \in RepliesProbar :
          Apply("probarComunicacion",
                probarComunicacion(Link(rx), currentStatus, resultAvailable, s), s, 0, "")
    /\ pc' = "periodic"
    /\ UNCHANGED <<espera, arg, ret>>

\* loop(), case 'b'
CmdB ==
    /\ pc = "loop"
    /\ \E s \in Replies(CMD_LEER_TIEMPO) :
          Apply("leerTiempoSoplado",
                leerTiempoSoplado(Link(rx), currentStatus, resultAvailable, s), s, 0, "")
    /\ pc' = "periodic"
    /\ UNCHANGED <<espera, arg, ret>>

\* loop(), case 'c': byte nuevoTiempo = input.toInt()
CmdC ==
    /\ pc = "loop"
    /\ \E typed \in Typed, s \in Replies(CMD_CONFIG_TIEMPO) :
          LET x == configurarTiempoSoplado(Link(rx), currentStatus, resultAvailable,
                                           ToByte(typed), s)
          IN Apply("configurarTiempoSoplado", x,
                   IF x.L.ev = <<>> THEN NoReply ELSE s, typed, "")
    /\ pc' = "periodic"
    /\ UNCHANGED <<espera, arg, ret>>

\* loop(), case 'z'
CmdZ ==
    /\ pc = "loop"
    /\ Apply("resetComunicacion",
             resetComunicacion(Link(rx), currentStatus, resultAvailable), NoReply, 0, "")
    /\ pc' = "periodic"
    /\ UNCHANGED <<espera, arg, ret>>

\* loop(), case 'i': iniciarPrueba() up to the call of esperarEstado
CmdI ==
    /\ pc = "loop"
    /\ \E s \in Replies(CMD_ESTADO) :
          LET x == iniciarPruebaConsulta(Link(rx), currentStatus, resultAvailable, s)
          IN IF PuedeIniciar(x.cs)
             THEN /\ Apply("iniciarPrueba", x, s, 0, "inicio")
                  /\ pc' = "esperar"
             ELSE /\ Apply("iniciarPrueba", x, s, 0, "no_se_puede")
                  /\ pc' = "periodic"
    /\ espera' = 0
    /\ UNCHANGED <<arg, ret>>

\* esperarEstado(STATUS_IDLE, 10000): one pass of its loop
EsperarPoll ==
    /\ pc = "esperar"
    /\ EsperaSigue(espera, ESPERA_TIMEOUT_MS)
    /\ \E s \in Replies(CMD_ESTADO) :
          LET x == verificarEstado(Link(rx), currentStatus, resultAvailable, s)
          IN /\ Apply("esperarEstado", x, s, STATUS_IDLE, "")
             /\ IF x.cs = STATUS_IDLE
                THEN pc' = "cambiar" /\ espera' = espera + Paso(x, TRUE)
                ELSE pc' = "esperar" /\ espera' = espera + Paso(x, FALSE)
    /\ UNCHANGED <<arg, ret>>

\* esperarEstado: the loop condition fails
EsperarTimeout ==
    /\ pc = "esperar"
    /\ ~EsperaSigue(espera, ESPERA_TIMEOUT_MS)
    /\ Apply("esperarEstado", Nothing("timeout_espera"), NoReply, STATUS_IDLE, "")
    /\ pc' = "cambiar"
    /\ UNCHANGED <<espera, arg, ret>>

\* iniciarPrueba(): cambiarEstado(STATUS_PREHEATING)
Cambiar ==
    /\ pc = "cambiar"
    /\ \E s \in Replies(CMD_CAMBIAR) :
          Apply("cambiarEstado",
                cambiarEstado(Link(rx), currentStatus, resultAvailable,
                              STATUS_PREHEATING, s), s, STATUS_PREHEATING, "")
    /\ pc' = "periodic"
    /\ espera' = 0
    /\ UNCHANGED <<arg, ret>>

\* loop() with nothing on the console
NoInput ==
    /\ pc = "loop"
    /\ pc' = "periodic"
    /\ due' \in Elapsed(due, 0)
    /\ obs' = NoObs
    /\ UNCHANGED <<currentStatus, resultAvailable, rx, espera, arg, ret>>

\* loop(): if (millis() - lastStatusCheck >= 3000) { ... }, which ends the pass
Periodic ==
    /\ pc = "periodic"
    /\ pc' = "loop"
    /\ IF due
       THEN IF LecturaAutomatica(currentStatus, resultAvailable)
            THEN \E s \in Replies(CMD_RESULTADO) :
                    LET x == leerResultado(Link(rx), currentStatus, resultAvailable, s)
                    IN /\ currentStatus' = x.cs
                       /\ resultAvailable' = FALSE
                       /\ rx' = x.L.rx \o [i \in 1..Len(x.L.incoming) |-> x.L.incoming[i].b]
                       /\ due' = (x.L.now >= PERIOD_MS)
                       /\ obs' = Obs("periodico", x, s, 0, "")
            ELSE /\ due' = FALSE
                 /\ obs' = NoObs
                 /\ UNCHANGED <<currentStatus, resultAvailable, rx>>
       ELSE /\ obs' = NoObs
            /\ UNCHANGED <<currentStatus, resultAvailable, rx, due>>
    /\ UNCHANGED <<espera, arg, ret>>

Next ==
    \/ Setup
    \/ CmdI \/ CmdR \/ CmdS \/ CmdQ \/ CmdT \/ CmdB \/ CmdC \/ CmdZ
    \/ EsperarPoll \/ EsperarTimeout \/ Cambiar
    \/ NoInput \/ Periodic

Spec == Init /\ [][Next]_vars

\* The processor keeps executing, and setup() and loop() are the only thread:
\* the program takes infinitely many steps.  Next is enabled in every
\* reachable state (loop() never ends), so this says what weak fairness of
\* Next says.
SpecJusto == Spec /\ []<><<TRUE>>_vars

----------------------------------------------------------------------------
(* The check value derivations on their own: arg is a 7-byte payload (the  *)
(* bytes 1..7 of a frame), ret the three values the program's expressions  *)
(* give for it.                                                            *)

ByteSample == {0, 1, 127, 128, 133, 255}
Payloads ==
    {<<a, b, c, d, e, f, g>> :
        a \in ByteSample, b \in ByteSample, c \in ByteSample,
        d \in {0, 255}, e \in {0, 255}, f \in {0, 255}, g \in {0, 255}}

AsCmd(p) == <<START_BYTE>> \o p \o <<0>>

Idle(where) ==
    /\ currentStatus = STATUS_IDLE
    /\ resultAvailable = FALSE
    /\ due = FALSE
    /\ rx = <<>>
    /\ pc = where
    /\ espera = 0
    /\ obs = NoObs
    /\ ret = 0

InitChecksum == Idle("checksum") /\ arg \in Payloads

Checksums ==
    /\ pc = "checksum"
    /\ pc' = "checksum_done"
    /\ ret' = [calcular |-> calcularChecksum(arg, 7),
               masked |-> ChecksumMasked(AsCmd(arg)),
               not |-> ChecksumNot(AsCmd(arg))]
    /\ UNCHANGED <<currentStatus, resultAvailable, due, rx, espera, obs, arg>>

SpecChecksum == InitChecksum /\ [][Checksums]_vars

----------------------------------------------------------------------------
(* leerRespuesta on its own: arg is what the line delivers, with times     *)
(* counted from the call (bytes with time 0 are in the receive buffer when *)
(* the call begins); ret is the record of the call.                        *)

NoiseLen == 40        \* bytes of a stream of noise that outlasts the timeout
NoiseGapMs == 100

Frames == {SensorFrame(START_BYTE, CMD_ESTADO, <<STATUS_IDLE, 0, 0>>, 0),
           SensorFrame(START_BYTE, CMD_RESULTADO, <<START_BYTE, 50, ALARM_DRINKING>>, 0)}

\* what may precede a frame: up to MaxGarbage bytes, 0xFF among them or not
Garbage ==
    UNION {[1..n -> {NoiseByte, START_BYTE}] : n \in 0..MaxGarbage}

LeerDelays == {0, 1500, 2900, 2920, 2921, 2950, 2990, 3000, 3100}
LeerGaps == {0, 1, 10, 11, 400}

LeerInputs ==
    {[bytes |-> g \o SubSeq(f, 1, n), delay |-> d, gap |-> gp, g |-> Len(g), n |-> n] :
        g \in Garbage, f \in Frames, n \in 0..FRAME_LEN, d \in LeerDelays, gp \in LeerGaps}
    \cup {[bytes |-> Noise(NoiseLen), delay |-> 0, gap |-> gp, g |-> NoiseLen, n |-> 0] :
        gp \in {1, NoiseGapMs}}

InitLeer == Idle("leer") /\ arg \in LeerInputs

Leer ==
    /\ pc = "leer"
    /\ pc' = "leido"
    /\ ret' = leerRespuesta(
                 Delay([Link(<<>>) EXCEPT !.incoming = Timed(arg, 0)], 0), FRAME_LEN).r
    /\ UNCHANGED <<currentStatus, resultAvailable, due, rx, espera, obs, arg>>

SpecLeer == InitLeer /\ [][Leer]_vars

----------------------------------------------------------------------------
(* Properties *)

Writes(ev) == SelectSeq(ev, LAMBDA x : x.e = "write")

\* the command code each operation sends and expects echoed
OpCode(op) ==
    CASE op \in {"verificarEstado", "esperarEstado", "iniciarPrueba",
                 "probarComunicacion"} -> CMD_ESTADO
      [] op \in {"leerResultado", "periodico"} -> CMD_RESULTADO
      [] op = "consultarUmbrales" -> CMD_UMBRAL
      [] op = "leerTiempoSoplado" -> CMD_LEER_TIEMPO
      [] op = "configurarTiempoSoplado" -> CMD_CONFIG_TIEMPO
      [] op = "cambiarEstado" -> CMD_CAMBIAR
      [] OTHER -> 0

\* the messages that print something taken from a response
Interpreted ==
    {"estado", "estado_antes", "resultado", "umbrales", "tiempo",
     "cambio_exitoso", "cambio_rechazado", "config_exitosa", "config_rechazada"}

\* byte 8 of a 9-byte response is the check value of its bytes 1..7
CheckOk(f) == (f[2] + f[3] + f[4] + f[5] + f[6] + f[7] + f[8] + f[9]) % 256 = 0

\* C1: a response whose byte 8 is not the check value of bytes 1..7 is
\* rejected by every operation: currentStatus keeps its value and no status,
\* measurement, threshold, blow time or acknowledgement is taken from it.
C1_ChecksumVerified ==
    (obs.r.ok /\ ~CheckOk(obs.r.buffer)) =>
        (currentStatus = obs.prev /\ obs.out \notin Interpreted)

\* C2 as stated: iniciarPrueba entered with currentStatus = Blowing refuses
\* to start and writes nothing on the sensor link.
C2_NoTransmission ==
    (obs.op = "iniciarPrueba" /\ obs.prev = STATUS_BLOWING) =>
        (obs.gate = "no_se_puede" /\ Writes(obs.ev) = <<>>)

\* C2 amended: iniciarPrueba first writes one status query and takes
\* currentStatus from its reply; when currentStatus is Blowing after that, it
\* refuses to start, returns, and has written that one query frame only.
C2_GateAfterRefresh ==
    (obs.op = "iniciarPrueba" /\ currentStatus = STATUS_BLOWING) =>
        /\ obs.gate = "no_se_puede"
        /\ pc = "periodic"
        /\ Len(Writes(obs.ev)) = 1
        /\ Writes(obs.ev)[1].f = <<255, 1, 133, 0, 0, 0, 0, 0, 122>>

C2_Witness ==
    /\ obs.op = "iniciarPrueba"
    /\ obs.prev = STATUS_BLOWING
    /\ currentStatus = STATUS_BLOWING
    /\ obs.gate = "no_se_puede"

\* C3: every frame written to the sensor is 9 bytes: 0xFF, 0x01, the command
\* code of the operation, its data byte (zero where the command has none),
\* four zero bytes, and a last byte that makes bytes 1..8 sum to 0 mod 256;
\* and so are the change-state frame for every byte and the write-blow-time
\* frame for every time in range.
WellFormed(f, code, data0) ==
    /\ Len(f) = 9
    /\ f[1] = 255 /\ f[2] = 1 /\ f[3] = code /\ f[4] = data0
    /\ f[5] = 0 /\ f[6] = 0 /\ f[7] = 0 /\ f[8] = 0
    /\ f[9] \in Byte
    /\ CheckOk(f)

C3_FramesWellFormed ==
    /\ \A i \in 1..Len(obs.ev) :
          obs.ev[i].e = "write" =>
              WellFormed(obs.ev[i].f, OpCode(obs.op),
                         IF obs.op \in {"configurarTiempoSoplado", "cambiarEstado"}
                         THEN obs.in % 256 ELSE 0)
    /\ \A n \in TIEMPO_MIN..TIEMPO_MAX : WellFormed(cmdConfigTiempo(n), 137, n)
    /\ \A e \in Byte : WellFormed(cmdCambiar(e), 135, e)
    /\ WellFormed(cmdLeerTiempo, 136, 0)

C3_Witness ==
    /\ obs.op = "configurarTiempoSoplado"
    /\ obs.in = 10
    /\ Len(Writes(obs.ev)) = 1
    /\ obs.out = "config_exitosa"

\* C4: for every 7-byte payload the three check value expressions of the
\* program give the same byte, and payload plus that byte sum to 0 mod 256.
C4_ChecksumsAgree ==
    pc = "checksum_done" =>
        /\ ret.calcular = ret.masked
        /\ ret.masked = ret.not
        /\ (SumBytes(arg, 0, 6) + ret.calcular) % 256 = 0
        /\ (SumBytes(arg, 0, 6) + ret.masked) % 256 = 0
        /\ (SumBytes(arg, 0, 6) + ret.not) % 256 = 0

\* C5: in every exchange the receive buffer is emptied right before the
\* command is written (nothing is pending at the write), leerRespuesta runs
\* only after the write and its flush, and it reads no byte that was already
\* received when the command was written.
C5_DrainBeforeSend ==
    /\ \A i \in 1..Len(obs.ev) :
          /\ obs.ev[i].e = "write" =>
                (i > 1 /\ obs.ev[i - 1].e = "drain" /\ obs.ev[i].pending = 0)
          /\ obs.ev[i].e = "leer" =>
                \E j \in 1..(i - 1), k \in 1..(i - 1) :
                    j < k /\ obs.ev[j].e = "write" /\ obs.ev[k].e = "flush"
    /\ obs.r.oldRead = 0

C5_Witness ==
    /\ Len(obs.ev) > 0
    /\ obs.ev[1].e = "drain"
    /\ obs.ev[1].n > 0
    /\ obs.r.ok
    /\ obs.r.buffer = obs.s.bytes

\* the input of leerRespuesta: its garbage holds no 0xFF; the time its last
\* byte is received, counted from the call
GarbageClean(a) == \A i \in 1..a.g : a.bytes[i] # START_BYTE
LastArrival(a) == a.delay + (Len(a.bytes) - 1) * a.gap
FrameOf(a) == SubSeq(a.bytes, a.g + 1, a.g + FRAME_LEN)

\* a frame received this early is read in full whatever the polling does:
\* 8 more bytes are read in at most 8 passes of READ_POLL_MS each
InTime(a) == LastArrival(a) <= READ_TIMEOUT_MS - (FRAME_LEN - 1) * READ_POLL_MS

\* C6 as stated: garbage followed by a valid frame delivered within the
\* timeout is read successfully and the frame returned; garbage without a
\* 0xFF gives a failure with zero bytes collected.
C6_Resync ==
    pc = "leido" =>
        /\ (arg.n = FRAME_LEN /\ LastArrival(arg) < READ_TIMEOUT_MS) =>
               (ret.ok /\ ret.buffer = FrameOf(arg))
        /\ (arg.n = 0 /\ GarbageClean(arg)) => (~ret.ok /\ ret.bytesRead = 0)

\* C6 amended: garbage without a 0xFF followed by a valid frame whose last
\* byte is received at least 80 ms before the timeout is read successfully,
\* the garbage discarded and the frame returned; garbage without a 0xFF
\* alone gives a failure with zero bytes collected.
C6_ResyncCleanInTime ==
    pc = "leido" =>
        /\ (arg.n = FRAME_LEN /\ GarbageClean(arg) /\ InTime(arg)) =>
               (ret.ok /\ ret.buffer = FrameOf(arg) /\ ret.skipped = arg.g)
        /\ (arg.n = 0 /\ GarbageClean(arg)) => (~ret.ok /\ ret.bytesRead = 0)

C6_Witness ==
    /\ pc = "leido"
    /\ arg.g = MaxGarbage /\ GarbageClean(arg) /\ arg.n = FRAME_LEN
    /\ arg.delay > 0
    /\ ret.ok /\ ret.skipped = arg.g /\ ret.buffer = FrameOf(arg)

\* C7 as stated: 0xFF and k more bytes (k < 8), then silence until the
\* timeout: the call fails with k+1 bytes collected; no success with fewer
\* than 9 bytes.
C7_Partial ==
    pc = "leido" =>
        /\ (arg.g = 0 /\ arg.n \in 1..(FRAME_LEN - 1) /\ LastArrival(arg) < READ_TIMEOUT_MS) =>
               (~ret.ok /\ ret.bytesRead = arg.n)
        /\ ret.ok => ret.bytesRead = FRAME_LEN

\* C7 amended: 0xFF and k more bytes (k < 8), all received at least 80 ms
\* before the timeout, then silence: the call fails with k+1 bytes
\* collected; no success with fewer than 9 bytes.
C7_PartialInTime ==
    pc = "leido" =>
        /\ (arg.g = 0 /\ arg.n \in 1..(FRAME_LEN - 1) /\ InTime(arg)) =>
               (~ret.ok /\ ret.bytesRead = arg.n)
        /\ ret.ok => ret.bytesRead = FRAME_LEN

C7_Witness ==
    /\ pc = "leido"
    /\ arg.g = 0 /\ arg.n = 5 /\ arg.delay > 0 /\ arg.gap > 0
    /\ ~ret.ok /\ ret.bytesRead = 5

\* C8: leerRespuesta returns, with success or with a timeout failure, no
\* later than 3000 ms after it was called, and makes no read once 3000 ms
\* have passed, whatever the line delivers.
C8_Bounded ==
    pc = "leido" =>
        /\ ret.dur <= READ_TIMEOUT_MS
        /\ ret.lastRead < READ_TIMEOUT_MS
        /\ ret.ok \/ ret.dur >= READ_TIMEOUT_MS
        /\ ret.ok => ret.bytesRead = FRAME_LEN

C8_Witness ==
    /\ pc = "leido"
    /\ arg.g = NoiseLen
    /\ ~ret.ok
    /\ ret.dur = READ_TIMEOUT_MS
    /\ ret.reads > 0 /\ ret.bytesRead = 0

\* C9: a step changes currentStatus only if it is a status query whose
\* reply was read in full with 0xFF and 0x85 in front, and then to byte 2 of
\* that reply; timeouts, replies with another header, and all other
\* operations, acknowledged or not, leave it as it was.
C9_OnlyStatusQuery ==
    [][currentStatus' # currentStatus =>
          /\ obs'.op \in {"verificarEstado", "esperarEstado", "iniciarPrueba"}
          /\ obs'.r.ok
          /\ obs'.r.buffer[1] = 255 /\ obs'.r.buffer[2] = 133
          /\ currentStatus' = obs'.r.buffer[3]
          /\ Len(Writes(obs'.ev)) = 1
          /\ Writes(obs'.ev)[1].f[3] = 133]_vars

C9_Witness ==
    /\ obs.op = "cambiarEstado"
    /\ obs.out = "cambio_exitoso"
    /\ currentStatus = STATUS_READ_RESULT

\* C10: a response read in full whose byte 0 is not 0xFF or whose byte 1 is
\* not the code of the command just sent is not interpreted, whatever its
\* check value; neither is a 9-byte reply that begins with another byte
\* than 0xFF.
C10_HeaderRejected ==
    /\ (obs.r.ok /\ ~(obs.r.buffer[1] = 255 /\ obs.r.buffer[2] = OpCode(obs.op))) =>
           (currentStatus = obs.prev /\ obs.out \notin Interpreted)
    /\ (Len(obs.s.bytes) = FRAME_LEN /\ obs.s.bytes[1] # 255) =>
           (currentStatus = obs.prev /\ obs.out \notin Interpreted)

C10_Witness ==
    /\ obs.op = "verificarEstado"
    /\ obs.r.ok
    /\ obs.r.buffer[2] = 134
    /\ CheckOk(obs.r.buffer)
    /\ obs.r.buffer[3] # currentStatus
    /\ obs.out = "nada"

\* C11: a write-blow-time frame (0x89) is written only if the seconds value
\* requested, the integer typed after 'c', is in 1..10; a request outside
\* this range makes no call on the sensor link, neither drain nor write.
C11_RangeValidated ==
    obs.op = "configurarTiempoSoplado" =>
        /\ Writes(obs.ev) # <<>> => obs.in \in TIEMPO_MIN..TIEMPO_MAX
        /\ obs.in \notin TIEMPO_MIN..TIEMPO_MAX => obs.ev = <<>>

\* C12: a read-result frame (0x86) is written only by a step entered with
\* currentStatus = ResultReady; the console command 'r' in any other state is
\* refused, makes no call on the sensor link and changes nothing.
C12_ReadResultGuard ==
    /\ (\E i \in 1..Len(obs.ev) : obs.ev[i].e = "write" /\ obs.ev[i].f[3] = 134) =>
           (obs.prev = STATUS_READ_RESULT /\ obs.op \in {"leerResultado", "periodico"})
    /\ obs.op \in {"leerResultado", "periodico"} => obs.prev = STATUS_READ_RESULT
    /\ obs.op = "r" =>
           /\ obs.prev # STATUS_READ_RESULT
           /\ obs.ev = <<>>
           /\ obs.out = "no_hay_resultado"
           /\ currentStatus = obs.prev

C12_Witness ==
    /\ obs.op = "leerResultado"
    /\ obs.prev = STATUS_READ_RESULT
    /\ Len(Writes(obs.ev)) = 1
    /\ Writes(obs.ev)[1].f[3] = 134
    /\ obs.out = "resultado"

\* C13 as stated: the frame written for blow time 7 is
\* FF 01 89 07 00 00 00 00 68.
C13_Frame7_0x68 ==
    (obs.op = "configurarTiempoSoplado" /\ obs.in = 7) =>
        /\ Len(Writes(obs.ev)) = 1
        /\ Writes(obs.ev)[1].f = <<255, 1, 137, 7, 0, 0, 0, 0, 104>>

\* C13 amended: the frame written for blow time 7 is
\* FF 01 89 07 00 00 00 00 6F.
C13_Frame7_0x6F ==
    (obs.op = "configurarTiempoSoplado" /\ obs.in = 7) =>
        /\ Len(Writes(obs.ev)) = 1
        /\ Writes(obs.ev)[1].f = <<255, 1, 137, 7, 0, 0, 0, 0, 111>>

C13_Witness ==
    /\ obs.op = "configurarTiempoSoplado"
    /\ obs.in = 7
    /\ Len(Writes(obs.ev)) = 1
    /\ obs.r.ok

\* C14: for every read-result response that is accepted, the concentration
\* printed is response[2] * 256 + response[3], a value in 0..65535, and the
\* alarm printed is None for response[7] = 0, Drinking for 1, Drunk for 2 and
\* Unknown with the code for anything else; bytes 2,3 = 00 32 with byte 7 = 01
\* give 50 mg/100ml, Drinking.
C14_Decoding ==
    obs.out = "resultado" =>
        LET response == obs.r.buffer
        IN /\ obs.r.ok /\ response[1] = 255 /\ response[2] = 134
           /\ obs.val[1] = response[3] * 256 + response[4]
           /\ obs.val[1] \in 0..65535
           /\ response[8] = 0 => obs.val[2] = <<"sin_alcohol">>
           /\ response[8] = 1 => obs.val[2] = <<"bebido">>
           /\ response[8] = 2 => obs.val[2] = <<"ebrio">>
           /\ response[8] \notin {0, 1, 2} => obs.val[2] = <<"desconocido", response[8]>>
           /\ (response[3] = 0 /\ response[4] = 50 /\ response[8] = 1) =>
                  obs.val = <<50, <<"bebido">>>>

C14_Witness ==
    /\ obs.out = "resultado"
    /\ obs.r.buffer[3] = 0 /\ obs.r.buffer[4] = 50 /\ obs.r.buffer[8] = 1
    /\ obs.val = <<50, <<"bebido">>>>

\* C15: an invocation of a single-exchange operation (query state, change
\* state, read result, read blow time, write blow time, read thresholds)
\* that makes its exchange writes exactly one frame and calls leerRespuesta
\* once, whether the reply is accepted, malformed or missing (a write blow
\* time refused for its range makes no call at all); every step of every
\* operation writes at most one frame, and it is only inside iniciarPrueba
\* and its esperarEstado that a further frame follows without a new command.
Leers(ev) == SelectSeq(ev, LAMBDA x : x.e = "leer")

SingleOps ==
    {"verificarEstado", "cambiarEstado", "leerResultado", "periodico",
     "leerTiempoSoplado", "configurarTiempoSoplado", "consultarUmbrales"}

C15_NoRetry ==
    /\ Len(Writes(obs.ev)) <= 1
    /\ Len(Leers(obs.ev)) <= 1
    /\ obs.op \in SingleOps =>
           IF obs.out = "config_fuera_de_rango"
           THEN obs.ev = <<>>
           ELSE Len(Writes(obs.ev)) = 1 /\ Len(Leers(obs.ev)) = 1
    /\ pc \in {"esperar", "cambiar"} => obs.op \in {"iniciarPrueba", "esperarEstado"}

C15_Witness ==
    /\ obs.op = "leerTiempoSoplado"
    /\ obs.out = "tiempo_sin_respuesta"
    /\ ~obs.r.ok
    /\ Len(Writes(obs.ev)) = 1
    /\ Len(Leers(obs.ev)) = 1

\* C16: after its status query iniciarPrueba goes on exactly when
\* currentStatus is Idle or ResultReady; it then waits for Idle with status
\* queries only, for a bounded time, and after the wait, however it ended,
\* writes one frame FF 01 87 32 00 00 00 00 46 and is done; in any other
\* state it returns, and no change-state frame is written anywhere else.
MaxPasoMs == SETTLE_ENVIAR_MS + READ_TIMEOUT_MS + ESPERA_POLL_MS

C16_StartTest ==
    /\ [](obs.op = "iniciarPrueba" =>
            /\ currentStatus \in {STATUS_IDLE, STATUS_READ_RESULT} => pc = "esperar"
            /\ currentStatus \notin {STATUS_IDLE, STATUS_READ_RESULT} => pc = "periodic"
            /\ \A i \in 1..Len(obs.ev) : obs.ev[i].e = "write" => obs.ev[i].f[3] # 135)
    /\ [](pc = "esperar" => espera < ESPERA_TIMEOUT_MS + MaxPasoMs)
    /\ [][pc = "esperar" =>
            /\ obs'.op = "esperarEstado"
            /\ pc' \in {"esperar", "cambiar"}
            /\ \A i \in 1..Len(obs'.ev) : obs'.ev[i].e = "write" => obs'.ev[i].f[3] = 133]_vars
    /\ [][pc = "cambiar" =>
            /\ obs'.op = "cambiarEstado"
            /\ pc' = "periodic"
            /\ Len(Writes(obs'.ev)) = 1
            /\ Writes(obs'.ev)[1].f = <<255, 1, 135, 50, 0, 0, 0, 0, 70>>]_vars
    /\ [][(\E i \in 1..Len(obs'.ev) : obs'.ev[i].e = "write" /\ obs'.ev[i].f[3] = 135) =>
            pc = "cambiar"]_vars

C16_Witness ==
    /\ obs.op = "cambiarEstado"
    /\ obs.prev = STATUS_READ_RESULT
    /\ Len(Writes(obs.ev)) = 1
    /\ pc = "periodic"

\* C17: esperarEstado always returns, whatever the sensor does; each pass
\* writes one status query; it returns either right after a query with
\* currentStatus equal to the target, or once the time since entry is at
\* least the timeout, and then it only prints and changes nothing; a pass
\* that leaves currentStatus equal to the target is the last one.
C17_WaitTerminates ==
    /\ (pc = "esperar") ~> (pc = "cambiar")
    /\ [][(pc = "esperar" /\ pc' # "esperar") =>
            /\ pc' = "cambiar"
            /\ obs'.op = "esperarEstado"
            /\ \/ /\ currentStatus' = obs'.in
                  /\ Len(Writes(obs'.ev)) = 1
                  /\ Writes(obs'.ev)[1].f = <<255, 1, 133, 0, 0, 0, 0, 0, 122>>
               \/ /\ espera >= ESPERA_TIMEOUT_MS
                  /\ obs'.out = "timeout_espera"
                  /\ obs'.ev = <<>>
                  /\ currentStatus' = currentStatus
                  /\ resultAvailable' = resultAvailable
                  /\ rx' = rx]_vars
    /\ [][(pc = "esperar" /\ pc' = "esperar") =>
            /\ espera < ESPERA_TIMEOUT_MS
            /\ currentStatus' # obs'.in
            /\ Len(Writes(obs'.ev)) = 1
            /\ Writes(obs'.ev)[1].f = <<255, 1, 133, 0, 0, 0, 0, 0, 122>>
            /\ espera' >= espera + SETTLE_ENVIAR_MS + ESPERA_POLL_MS]_vars
    /\ [][(pc = "esperar" /\ Writes(obs'.ev) # <<>> /\ currentStatus' = obs'.in) =>
            pc' = "cambiar"]_vars
    /\ [][pc = "cambiar" =>
            \A i \in 1..Len(obs'.ev) : obs'.ev[i].e = "write" => obs'.ev[i].f[3] # 133]_vars

C17_Witness ==
    /\ pc = "cambiar"
    /\ obs.op = "esperarEstado"
    /\ obs.out = "timeout_espera"
    /\ espera >= ESPERA_TIMEOUT_MS
    /\ currentStatus # STATUS_IDLE

\* C18: when iniciarPrueba writes the change-state frame, currentStatus is
\* Idle or ResultReady.
C18_LegalAtSend ==
    (obs.op = "cambiarEstado" /\ Writes(obs.ev) # <<>>) =>
        obs.prev \in {STATUS_IDLE, STATUS_READ_RESULT}

\* C19: in leerRespuesta bytesRead never exceeds 9 and buffer is assigned at
\* indices 0..8 only; the bytes collected are the first 0xFF read and the
\* bytes read after it, in order, a later 0xFF among them as data; and when
\* the call returns true it has collected 9 of them.
FirstFF(bytes) ==
    IF \E i \in 1..Len(bytes) : bytes[i] = START_BYTE
    THEN CHOOSE i \in 1..Len(bytes) :
            bytes[i] = START_BYTE /\ \A j \in 1..(i - 1) : bytes[j] # START_BYTE
    ELSE 0

C19_Framing ==
    pc = "leido" =>
        /\ ret.bytesRead <= FRAME_LEN
        /\ ret.maxBytesRead <= FRAME_LEN
        /\ ret.written \subseteq 0..(FRAME_LEN - 1)
        /\ DOMAIN ret.buffer = 1..FRAME_LEN
        /\ ret.bytesRead > 0 =>
               /\ FirstFF(arg.bytes) > 0
               /\ ret.skipped = FirstFF(arg.bytes) - 1
               /\ \A i \in 1..ret.bytesRead :
                      ret.buffer[i] = arg.bytes[FirstFF(arg.bytes) + i - 1]
        /\ ret.ok =>
               /\ ret.bytesRead = FRAME_LEN
               /\ ret.buffer[1] = START_BYTE
               /\ ret.buffer = SubSeq(arg.bytes, FirstFF(arg.bytes), FirstFF(arg.bytes) + 8)

C19_Witness ==
    /\ pc = "leido"
    /\ ret.ok
    /\ arg.g = 2 /\ arg.bytes[1] = START_BYTE
    /\ ret.buffer[3] = START_BYTE
    /\ ret.written = 0..(FRAME_LEN - 1)

\* C20: the periodic path of loop() reads the result by itself only when
\* currentStatus is ResultReady and resultAvailable is true, and
\* resultAvailable is false afterwards whether the read succeeded or not;
\* resultAvailable becomes true only in verificarEstado, on a status reply
\* that says ResultReady, and becomes false only in that periodic read: so
\* one such reply is followed by at most one read made by the periodic path.
C20_AutoRead ==
    /\ [][obs'.op = "periodico" =>
            /\ pc = "periodic"
            /\ currentStatus = STATUS_READ_RESULT
            /\ resultAvailable
            /\ ~resultAvailable'
            /\ Len(Writes(obs'.ev)) = 1
            /\ Writes(obs'.ev)[1].f = <<255, 1, 134, 0, 0, 0, 0, 0, 121>>]_vars
    /\ [][(pc = "periodic" /\ Writes(obs'.ev) # <<>>) => obs'.op = "periodico"]_vars
    /\ [][(~resultAvailable /\ resultAvailable') =>
            /\ obs'.op \in {"verificarEstado", "esperarEstado"}
            /\ obs'.r.ok
            /\ obs'.r.buffer[1] = 255 /\ obs'.r.buffer[2] = 133
            /\ obs'.r.buffer[3] = STATUS_READ_RESULT
            /\ currentStatus' = STATUS_READ_RESULT]_vars
    /\ [][(resultAvailable /\ ~resultAvailable') => obs'.op = "periodico"]_vars

C20_Witness ==
    /\ obs.op = "periodico"
    /\ ~obs.r.ok
    /\ obs.out = "error_resultado"
    /\ ~resultAvailable
    /\ currentStatus = STATUS_READ_RESULT

====
